---- MODULE Spec2Model ----
(***************************************************************************)
(* Model of tools/sst-compare-redfish-os.py (openbmc/smbios-mdr): the     *)
(* tool that compares the SST configuration reported by the BMC over      *)
(* Redfish with the one reported by intel-speed-select on the host.       *)
(*                                                                         *)
(* Python strings are modelled as sequences of one-character strings, so  *)
(* that regular-expression matching, int(), str.split and sorted() are    *)
(* computed as the interpreter computes them.  JSON objects are records   *)
(* (or functions, when their keys are data), JSON arrays are sequences.   *)
(***************************************************************************)
EXTENDS Integers, Sequences, FiniteSets, TLC

VARIABLES
    pc,               \* position of main(): start, procs, configs, done, crashed
    error,            \* the exception that ended the run, "none" while running
    linux_data,       \* main's linux_data (result of get_linux_output)
    linux_cpu_map,    \* module global linux_cpu_map
    success,          \* module global success
    members,          \* number of Members of the ProcessorCollection
    procIdx,          \* processors visited so far by the outer for loop
    proc_resp,        \* the processor document fetched last
    pkg_data,         \* main's pkg_data
    cfgMembers,       \* number of Members of the current OperatingConfigCollection
    cfgIdx,           \* configs visited so far by the inner for loop
    config_resp,      \* the operating config document fetched last
    out_last,         \* what the last step printed through compare()
    printed_mismatch, \* whether "!! MISMATCH !!" was ever printed
    lookups,          \* number of get_linux_package calls made
    summary,          \* the final summary line, "none" until printed
    exit_code,        \* value returned by main, -1 until it returns
    args,             \* unit harness: the call to make
    ret               \* unit harness: what the call returned

vars == <<pc, error, linux_data, linux_cpu_map, success, members, procIdx,
          proc_resp, pkg_data, cfgMembers, cfgIdx, config_resp, out_last,
          printed_mismatch, lookups, summary, exit_code, args, ret>>

-----------------------------------------------------------------------------
(* Bounds of the model *)

\* longest BaseSpeedPrioritySettings list enumerated
MaxSettings == 3
\* longest TurboProfile list and largest bucket table enumerated
MaxTurbo == 3
\* most lines of intel-speed-select debug output enumerated
MaxLines == 2
\* most tokens on one debug line
MaxTokens == 2
\* most members of the ProcessorCollection
MaxProcs == 2
\* most members of an OperatingConfigCollection
MaxConfigs == 2

-----------------------------------------------------------------------------
(* Python strings *)

Digits == {"0", "1", "2", "3", "4", "5", "6", "7", "8", "9"}

DigitVal ==
    ("0" :> 0) @@ ("1" :> 1) @@ ("2" :> 2) @@ ("3" :> 3) @@ ("4" :> 4) @@
    ("5" :> 5) @@ ("6" :> 6) @@ ("7" :> 7) @@ ("8" :> 8) @@ ("9" :> 9)

\* code points of the characters that occur in dictionary keys
Ord ==
    ("-" :> 45) @@ ("0" :> 48) @@ ("1" :> 49) @@ ("2" :> 50) @@ ("3" :> 51) @@
    ("4" :> 52) @@ ("5" :> 53) @@ ("6" :> 54) @@ ("7" :> 55) @@ ("8" :> 56) @@
    ("9" :> 57) @@ (":" :> 58) @@ ("b" :> 98) @@ ("c" :> 99) @@ ("e" :> 101) @@
    ("k" :> 107) @@ ("t" :> 116) @@ ("u" :> 117)

Range(s) == {s[i] : i \in 1..Len(s)}

StartsWith(s, p) == Len(s) >= Len(p) /\ SubSeq(s, 1, Len(p)) = p

\* int(s) for a string of decimal digits
RECURSIVE int(_)
int(s) ==
    IF Len(s) = 0 THEN 0
    ELSE int(SubSeq(s, 1, Len(s) - 1)) * 10 + DigitVal[s[Len(s)]]

\* the longest run of digits of s that starts at position i: what (\d+) takes
RECURSIVE DigitRun(_, _)
DigitRun(s, i) ==
    IF i <= Len(s) /\ s[i] \in Digits THEN <<s[i]>> \o DigitRun(s, i + 1)
    ELSE <<>>

\* re.match(prefix + "(\d+)", s): anchored at the start of s only
re_match_digits(prefix, s) ==
    LET run == IF StartsWith(s, prefix) THEN DigitRun(s, Len(prefix) + 1) ELSE <<>>
    IN  [matched |-> run # <<>>, group1 |-> run]

\* s.split(sep) for a one-character separator
RECURSIVE split(_, _, _)
split(s, sep, cur) ==
    IF s = <<>> THEN <<cur>>
    ELSE IF Head(s) = sep THEN <<cur>> \o split(Tail(s), sep, <<>>)
    ELSE split(Tail(s), sep, Append(cur, Head(s)))

\* s < t for Python strings: lexicographic by code point
RECURSIVE StrLess(_, _)
StrLess(s, t) ==
    IF t = <<>> THEN FALSE
    ELSE IF s = <<>> THEN TRUE
    ELSE IF Ord[Head(s)] # Ord[Head(t)] THEN Ord[Head(s)] < Ord[Head(t)]
    ELSE StrLess(Tail(s), Tail(t))

\* sorted(keys) by numeric value of the key's trailing digits: not what the code does
RECURSIVE sorted_numeric(_)
sorted_numeric(S) ==
    IF S = {} THEN <<>>
    ELSE LET tailnum(k) == int(SelectSeq(k, LAMBDA c : c \in Digits))
             m == CHOOSE k \in S : \A j \in S : j = k \/ tailnum(k) < tailnum(j)
                                                \/ (tailnum(k) = tailnum(j) /\ StrLess(k, j))
         IN  <<m>> \o sorted_numeric(S \ {m})

\* sorted(keys) for a set of distinct strings
RECURSIVE sorted(_)
sorted(S) ==
    IF S = {} THEN <<>>
    ELSE LET m == CHOOSE k \in S : \A j \in S : j = k \/ StrLess(k, j)
         IN  <<m>> \o sorted(S \ {m})

S_cpu == <<"c", "p", "u">>
S_config == <<"c", "o", "n", "f", "i", "g">>
S_package == <<"p", "a", "c", "k", "a", "g", "e", "-">>
S_bucket == <<"b", "u", "c", "k", "e", "t", "-">>
S_level == <<"p", "e", "r", "f", "-", "p", "r", "o", "f", "i", "l", "e", "-",
             "l", "e", "v", "e", "l">>

-----------------------------------------------------------------------------
(* get_linux_output: the logical thread -> physical core map *)

\* A debug line is a sequence of tokens: [tag |-> "logical_cpu" | "punit_core"
\* | "text", num |-> digit string].  re.search("logical_cpu:(\d+).*punit_core:(\d+)")
\* takes the leftmost logical_cpu tag that has a punit_core tag after it, and,
\* .* being greedy, the last punit_core tag of the line.
LogicalAt(line) == {i \in 1..Len(line) : line[i].tag = "logical_cpu"}
PunitAt(line) == {i \in 1..Len(line) : line[i].tag = "punit_core"}

Max(S) == CHOOSE x \in S : \A y \in S : y <= x
Min(S) == CHOOSE x \in S : \A y \in S : x <= y

re_search_line(line) ==
    LET starts == {i \in LogicalAt(line) : \E j \in PunitAt(line) : j > i}
    IN  IF starts = {} THEN [matched |-> FALSE, group1 |-> <<>>, group2 |-> <<>>]
        ELSE [matched |-> TRUE,
              group1 |-> line[Min(starts)].num,
              group2 |-> line[Max(PunitAt(line))].num]

\* the loop of lines 35-41 keeping the first entry of a logical thread
RECURSIVE build_cpu_map_first(_, _)
build_cpu_map_first(lines, map) ==
    IF lines = <<>> THEN map
    ELSE LET match == re_search_line(Head(lines))
         IN  IF ~match.matched \/ int(match.group1) \in DOMAIN map
             THEN build_cpu_map_first(Tail(lines), map)
             ELSE build_cpu_map_first(Tail(lines),
                     (int(match.group1) :> int(match.group2)) @@ map)

\* the loop of lines 35-41, from the map built so far
RECURSIVE build_cpu_map(_, _)
build_cpu_map(lines, map) ==
    IF lines = <<>> THEN map
    ELSE LET match == re_search_line(Head(lines))
         IN  IF ~match.matched THEN build_cpu_map(Tail(lines), map)
             ELSE build_cpu_map(Tail(lines),
                     (int(match.group1) :> int(match.group2)) @@ map)

EmptyMap == [x \in {} |-> 0]

-----------------------------------------------------------------------------
(* compare *)

\* what compare prints: the description, the mismatch marker, the two values
compare(redfish_val, linux_val, description) ==
    [description |-> description,
     mismatch |-> redfish_val # linux_val,
     Redfish |-> redfish_val,
     Linux |-> linux_val]

\* compare's effect on the global success, after the calls that printed `printed`:
\* line 57 declares "global status", so line 58 assigns a local variable named
\* success and the module global keeps its value
compare_success(flag, printed) == flag

-----------------------------------------------------------------------------
(* get_linux_package, get_level_from_config_id *)

\* lines 69-72: the keys that match ^package-<num>:.*
matching_keys(linux_data_, num) ==
    {key \in DOMAIN linux_data_ : StartsWith(key, S_package \o num \o <<":">>)}

NoValue == [none |-> TRUE]

get_linux_package(linux_data_, redfish_id) ==
    LET match == re_match_digits(S_cpu, redfish_id)
        keys == matching_keys(linux_data_, match.group1)
    IN  IF ~match.matched THEN [raised |-> "RuntimeError", value |-> NoValue]
        ELSE IF Cardinality(keys) # 1 THEN [raised |-> "RuntimeError", value |-> NoValue]
        ELSE [raised |-> "none", value |-> linux_data_[CHOOSE k \in keys : TRUE]]

get_level_from_config_id(config_id) ==
    LET match == re_match_digits(S_config, config_id)
    IN  IF ~match.matched THEN [raised |-> "RuntimeError", value |-> <<>>]
        ELSE [raised |-> "none", value |-> match.group1]

-----------------------------------------------------------------------------
(* compare_config *)

Has(obj, keys) == keys \subseteq DOMAIN obj

\* lines 82-89: the scan of BaseSpeedPrioritySettings; "not x" is x = 0
RECURSIVE scan_priority_settings(_, _)
scan_priority_settings(settings, acc) ==
    IF settings = <<>> THEN acc
    ELSE LET bf == Head(settings)
             hp == IF acc.actual_hp_p1 = 0 \/ bf.BaseSpeedMHz > acc.actual_hp_p1
                   THEN [actual_hp_p1 |-> bf.BaseSpeedMHz,
                         actual_hp_cores |-> Range(bf.CoreIDs)]
                   ELSE [actual_hp_p1 |-> acc.actual_hp_p1,
                         actual_hp_cores |-> acc.actual_hp_cores]
             lp == IF acc.actual_lp_p1 = 0 \/ bf.BaseSpeedMHz < acc.actual_lp_p1
                   THEN bf.BaseSpeedMHz
                   ELSE acc.actual_lp_p1
         IN  scan_priority_settings(Tail(settings),
                 [actual_hp_p1 |-> hp.actual_hp_p1,
                  actual_hp_cores |-> hp.actual_hp_cores,
                  actual_lp_p1 |-> lp])

ScanStart == [actual_hp_p1 |-> 0, actual_hp_cores |-> {}, actual_lp_p1 |-> 0]

\* lines 96-97 and 181: the threads of a "0,2,4" list
cpu_list(text) == LET parts == split(text, ",", <<>>)
                  IN  {int(parts[i]) : i \in 1..Len(parts)}

\* lines 118-123 with the buckets taken in numeric order of their index
exp_turbo_numeric(linux_turbo) ==
    LET order == sorted_numeric(DOMAIN linux_turbo)
    IN  [i \in 1..Len(order) |->
            <<int(linux_turbo[order[i]]["core-count"]),
              int(linux_turbo[order[i]]["max-turbo-frequency(MHz)"])>>]

\* lines 119-123
exp_turbo(linux_turbo) ==
    LET order == sorted(DOMAIN linux_turbo)
    IN  [i \in 1..Len(order) |->
            <<int(linux_turbo[order[i]]["core-count"]),
              int(linux_turbo[order[i]]["max-turbo-frequency(MHz)"])>>]

\* line 118
actual_turbo(profile) ==
    [i \in 1..Len(profile) |-> <<profile[i].ActiveCoreCount, profile[i].MaxSpeedMHz>>]

BucketZero == S_bucket \o <<"0">>

\* lines 78-124.  A missing key, or a thread missing from linux_cpu_map, raises
\* KeyError at the statement that reads it; what was printed before stays printed.
compare_config_run(redfish_config, linux_config, cpu_map) ==
    LET actual == scan_priority_settings(redfish_config.BaseSpeedPrioritySettings,
                                         ScanStart)
        has_bf == "speed-select-base-freq-properties" \in DOMAIN linux_config
        exp_bf_props == linux_config["speed-select-base-freq-properties"]
        exp_hp_p1 == IF has_bf
                     THEN int(exp_bf_props["high-priority-base-frequency(MHz)"]) ELSE 0
        exp_threads == IF has_bf THEN cpu_list(exp_bf_props["high-priority-cpu-list"])
                       ELSE {}
        exp_hp_cores == {cpu_map[x] : x \in exp_threads}
        exp_lp_p1 == IF has_bf
                     THEN int(exp_bf_props["low-priority-base-frequency(MHz)"]) ELSE 0
        linux_turbo == linux_config["turbo-ratio-limits-sse"]
        c1 == compare(redfish_config.BaseSpeedMHz,
                      int(linux_config["base-frequency(MHz)"]), "Base Speed")
        c2 == compare(actual.actual_hp_p1, exp_hp_p1, "SST-BF High Priority P1 Freq")
        c3 == compare(actual.actual_hp_cores, exp_hp_cores,
                      "SST-BF High Priority Core List")
        c4 == compare(actual.actual_lp_p1, exp_lp_p1, "SST-BF Low Priority P1 Freq")
        c5 == compare(redfish_config.MaxJunctionTemperatureCelsius,
                      int(linux_config["tjunction-max(C)"]), "Junction Temperature")
        c6 == compare(redfish_config.MaxSpeedMHz,
                      int(linux_turbo[BucketZero]["max-turbo-frequency(MHz)"]),
                      "SSE Max Turbo Speed")
        c7 == compare(redfish_config.TDPWatts,
                      int(linux_config["thermal-design-power(W)"]), "TDP")
        c8 == compare(redfish_config.TotalAvailableCoreCount,
                      int(linux_config["enable-cpu-count"]) \div 2, "Enabled Core Count")
        c9 == compare(actual_turbo(redfish_config.TurboProfile), exp_turbo(linux_turbo),
                      "SSE Turbo Profile")
        KeyError(printed) == [raised |-> "KeyError", printed |-> printed]
    IN  IF ~Has(linux_config, {"base-frequency(MHz)"}) THEN KeyError(<<>>)
        ELSE IF ~(exp_threads \subseteq DOMAIN cpu_map) THEN KeyError(<<c1>>)
        ELSE IF ~Has(linux_config, {"tjunction-max(C)"}) THEN KeyError(<<c1, c2, c3, c4>>)
        ELSE IF ~(Has(linux_config, {"turbo-ratio-limits-sse"})
                  /\ BucketZero \in DOMAIN linux_turbo)
             THEN KeyError(<<c1, c2, c3, c4, c5>>)
        ELSE IF ~Has(linux_config, {"thermal-design-power(W)"})
             THEN KeyError(<<c1, c2, c3, c4, c5, c6>>)
        ELSE IF ~Has(linux_config, {"enable-cpu-count"})
             THEN KeyError(<<c1, c2, c3, c4, c5, c6, c7>>)
        ELSE [raised |-> "none", printed |-> <<c1, c2, c3, c4, c5, c6, c7, c8, c9>>]

\* compare_config if compare() raised on a mismatch: the traversal stops there
compare_config_stop(redfish_config, linux_config, cpu_map) ==
    LET full == compare_config_run(redfish_config, linux_config, cpu_map)
        bad == {i \in 1..Len(full.printed) : full.printed[i].mismatch}
    IN  IF bad = {} THEN full
        ELSE [raised |-> "RuntimeError", printed |-> SubSeq(full.printed, 1, Min(bad))]

compare_config(redfish_config, linux_config, cpu_map) ==
    compare_config_run(redfish_config, linux_config, cpu_map)

\* get_linux_output, lines 33-41, keeping the first entry of a thread
get_linux_output_map_first(stdout) == build_cpu_map_first(stdout, EmptyMap)

\* get_linux_output, lines 33-41: the value given to the global linux_cpu_map
get_linux_output_map(stdout) == build_cpu_map(stdout, EmptyMap)

-----------------------------------------------------------------------------
(* Inputs of the unit harness *)

EmptyObj == [x \in {} |-> <<>>]

Bucket(d) == S_bucket \o d
BucketKeys == {Bucket(<<"0">>), Bucket(<<"1">>), Bucket(<<"2">>), Bucket(<<"1", "0">>)}

LocalBucket(count, freq) == ("core-count" :> count) @@ ("max-turbo-frequency(MHz)" :> freq)
LocalBuckets == {LocalBucket(<<"4">>, <<"2", "5", "0", "0">>),
                 LocalBucket(<<"2">>, <<"2", "8", "0", "0">>)}
BucketTables ==
    UNION {[K -> LocalBuckets] : K \in {K \in SUBSET BucketKeys : Cardinality(K) <= MaxTurbo}}

RemoteTurboEntries == [ActiveCoreCount : {4, 2}, MaxSpeedMHz : {2500, 2800}]
RemoteTurboLists == UNION {[1..n -> RemoteTurboEntries] : n \in 0..MaxTurbo}

PrioEntries == [BaseSpeedMHz : {0, 1, 2}, CoreIDs : {<<1>>, <<2, 3>>}]
PrioLists == UNION {[1..n -> PrioEntries] : n \in 0..MaxSettings}

LocalBF(hp, cpus, lp) ==
    ("high-priority-base-frequency(MHz)" :> hp) @@ ("high-priority-cpu-list" :> cpus)
    @@ ("low-priority-base-frequency(MHz)" :> lp)
LocalBFs == {LocalBF(<<"2">>, <<"0">>, <<"1">>),
             LocalBF(<<"0", "2">>, <<"0", ",", "1">>, <<"0">>),
             LocalBF(<<"1">>, <<"1", ",", "2">>, <<"1">>)}

\* one perf-profile-level-<L> object of intel-speed-select's JSON
LinuxConfig(base, bf, tj, turbo, tdp, count, bfstate) ==
    ("base-frequency(MHz)" :> base) @@ bf @@ tj @@ turbo
    @@ ("thermal-design-power(W)" :> tdp) @@ ("enable-cpu-count" :> count)
    @@ ("speed-select-base-freq" :> bfstate)

BFProps(p) == "speed-select-base-freq-properties" :> p
TJ(t) == "tjunction-max(C)" :> t
Turbo(t) == "turbo-ratio-limits-sse" :> t

S_disabled == <<"d", "i", "s", "a", "b", "l", "e", "d">>
S_enabled == <<"e", "n", "a", "b", "l", "e", "d">>
S_unsupported == <<"u", "n", "s", "u", "p", "p", "o", "r", "t", "e", "d">>

DefaultTable == Bucket(<<"0">>) :> LocalBucket(<<"4">>, <<"2", "5", "0", "0">>)
DefaultLinuxConfig ==
    LinuxConfig(<<"2">>, EmptyObj, TJ(<<"9">>), Turbo(DefaultTable), <<"5">>, <<"8">>,
                S_disabled)

RedfishConfig(id, base, prio, tj, maxspeed, tdp, count, turbo) ==
    [Id |-> id, BaseSpeedMHz |-> base, BaseSpeedPrioritySettings |-> prio,
     MaxJunctionTemperatureCelsius |-> tj, MaxSpeedMHz |-> maxspeed, TDPWatts |-> tdp,
     TotalAvailableCoreCount |-> count, TurboProfile |-> turbo]

DefaultTurbo == <<[ActiveCoreCount |-> 4, MaxSpeedMHz |-> 2500]>>
Config0 == S_config \o <<"0">>

TurboCalls ==
    {[fn |-> "compare_config",
      redfish_config |-> RedfishConfig(Config0, 2, <<>>, 9, 2500, 5, 4, t),
      linux_config |-> LinuxConfig(<<"2">>, EmptyObj, TJ(<<"9">>), Turbo(b), <<"5">>,
                                   <<"8">>, S_disabled)] :
        t \in RemoteTurboLists, b \in BucketTables}

PrioCalls ==
    {[fn |-> "compare_config",
      redfish_config |-> RedfishConfig(Config0, 2, p, 9, 2500, 5, 4, DefaultTurbo),
      linux_config |-> LinuxConfig(<<"2">>, bf, TJ(<<"9">>), Turbo(DefaultTable), <<"5">>,
                                   <<"8">>, S_enabled)] :
        p \in PrioLists, bf \in {EmptyObj} \cup {BFProps(x) : x \in LocalBFs}}

ScalarCalls ==
    {[fn |-> "compare_config",
      redfish_config |-> RedfishConfig(Config0, base, <<>>, tj, 2500, tdp, count,
                                       DefaultTurbo),
      linux_config |-> LinuxConfig(lbase, EmptyObj, ltj, Turbo(DefaultTable), <<"5">>,
                                   lcount, S_disabled)] :
        base \in {2, 3}, tj \in {9, 8}, tdp \in {5, 6}, count \in {4, 5},
        lbase \in {<<"2">>, <<"0", "3">>}, ltj \in {TJ(<<"9">>), EmptyObj},
        lcount \in {<<"8">>, <<"9">>, <<"1", "0">>}}

CfgCalls == TurboCalls \cup PrioCalls \cup ScalarCalls

UnitCpuMaps == {(0 :> 2) @@ (1 :> 3) @@ (2 :> 2), (0 :> 2)}

Suffix0 == <<":", "d", "i", "e", "-", "0">>
Suffix1 == <<":", "d", "i", "e", "-", "1">>
PackageKeys == {S_package \o <<"0">> \o Suffix0, S_package \o <<"1">> \o Suffix0,
                S_package \o <<"1">> \o Suffix1, S_package \o <<"1", "0">> \o Suffix0,
                S_package \o <<"0", "1">> \o Suffix0}
RedfishIds == {S_cpu \o <<"0">>, S_cpu \o <<"1">>, S_cpu \o <<"1", "0">>,
               S_cpu \o <<"0", "1">>, S_cpu \o <<"1", "x">>, S_cpu,
               <<"x">> \o S_cpu \o <<"1">>, S_cpu \o <<"x", "1">>, <<"1">>, <<>>}
PkgCalls ==
    {[fn |-> "get_linux_package",
      linux_data |-> [k \in K |-> [key |-> k]],
      redfish_id |-> id] : K \in SUBSET PackageKeys, id \in RedfishIds}

Tokens == {[tag |-> "logical_cpu", num |-> <<"1">>], [tag |-> "logical_cpu", num |-> <<"0", "2">>],
           [tag |-> "punit_core", num |-> <<"3">>], [tag |-> "punit_core", num |-> <<"4">>]}
Lines == UNION {[1..n -> Tokens] : n \in 0..MaxTokens}
Stdouts == UNION {[1..n -> Lines] : n \in 0..MaxLines}
MapperCalls == {[fn |-> "get_linux_output", stdout |-> t] : t \in Stdouts}

-----------------------------------------------------------------------------
(* Unit harness: one call of one function on one input *)

NoCall == [fn |-> "none"]
Pending == [fn |-> "pending"]
NoDoc == [none |-> TRUE]

DriverIdle ==
    /\ pc = "idle" /\ error = "none" /\ linux_data = EmptyObj
    /\ members = 0 /\ procIdx = 0 /\ proc_resp = NoDoc /\ pkg_data = NoDoc
    /\ cfgMembers = 0 /\ cfgIdx = 0 /\ config_resp = NoDoc /\ out_last = <<>>
    /\ printed_mismatch = FALSE /\ lookups = 0 /\ summary = "none" /\ exit_code = -1

driverVars == <<pc, error, linux_data, members, procIdx, proc_resp, pkg_data, cfgMembers,
                cfgIdx, config_resp, out_last, printed_mismatch, lookups, summary,
                exit_code>>

UnitInit ==
    /\ DriverIdle
    /\ success = TRUE
    /\ \/ args \in CfgCalls /\ linux_cpu_map \in UnitCpuMaps
       \/ args \in PkgCalls /\ linux_cpu_map = EmptyMap
       \/ args \in MapperCalls /\ linux_cpu_map = EmptyMap
    /\ ret = Pending

CallCompareConfig ==
    /\ args.fn = "compare_config" /\ ret = Pending
    /\ LET r == compare_config(args.redfish_config, args.linux_config, linux_cpu_map)
       IN  /\ ret' = [fn |-> "compare_config", raised |-> r.raised, printed |-> r.printed]
           /\ success' = compare_success(success, r.printed)
    /\ UNCHANGED <<driverVars, linux_cpu_map, args>>

CallGetLinuxPackage ==
    /\ args.fn = "get_linux_package" /\ ret = Pending
    /\ LET r == get_linux_package(args.linux_data, args.redfish_id)
       IN  ret' = [fn |-> "get_linux_package", raised |-> r.raised, value |-> r.value]
    /\ UNCHANGED <<driverVars, linux_cpu_map, success, args>>

CallGetLinuxOutput ==
    /\ args.fn = "get_linux_output" /\ ret = Pending
    /\ linux_cpu_map' = get_linux_output_map(args.stdout)
    /\ ret' = [fn |-> "get_linux_output"]
    /\ UNCHANGED <<driverVars, success, args>>

UnitNext == CallCompareConfig \/ CallGetLinuxPackage \/ CallGetLinuxOutput

UnitSpec == UnitInit /\ [][UnitNext]_vars

-----------------------------------------------------------------------------
(* main: the documents it reads *)

LowerOf == ("E" :> "e") @@ ("D" :> "d")
\* str.lower()
lower(s) == [i \in 1..Len(s) |-> IF s[i] \in DOMAIN LowerOf THEN LowerOf[s[i]] ELSE s[i]]

Last(s) == s[Len(s)]

LevelKey(level) == S_level \o <<"-">> \o level
CurrentLevelKey == <<"g", "e", "t", "-", "c", "o", "n", "f", "i", "g", "-", "c", "u", "r",
                     "r", "e", "n", "t", "_", "l", "e", "v", "e", "l">>

Level0 ==
    LinuxConfig(<<"2">>, EmptyObj, TJ(<<"9">>), Turbo(DefaultTable), <<"5">>, <<"8">>,
                S_unsupported)
Level1 ==
    LinuxConfig(<<"3">>, BFProps(LocalBF(<<"2">>, <<"0", ",", "1">>, <<"1">>)),
                TJ(<<"9">>), Turbo(DefaultTable), <<"5">>, <<"8">>, S_enabled)
\* a level whose turbo table has no "bucket-0"
LevelNoBucket0 ==
    LinuxConfig(<<"2">>, EmptyObj, TJ(<<"9">>),
                Turbo(Bucket(<<"1">>) :> LocalBucket(<<"4">>, <<"2", "5", "0", "0">>)),
                <<"5">>, <<"8">>, S_disabled)

Package0 == S_package \o <<"0">> \o Suffix0
Package1 == S_package \o <<"1">> \o Suffix0
Package1b == S_package \o <<"1">> \o Suffix1

\* stderr of "perf-profile info": package key -> level key -> level object
InfoOutputs ==
    {Package0 :> ((LevelKey(<<"0">>) :> Level0) @@ (LevelKey(<<"1">>) :> Level1)),
     (Package0 :> (LevelKey(<<"0">>) :> Level0))
        @@ (Package1 :> ((LevelKey(<<"0">>) :> LevelNoBucket0)
                         @@ (LevelKey(<<"1">>) :> Level1))),
     (Package0 :> (LevelKey(<<"0">>) :> Level0))
        @@ (Package1 :> (LevelKey(<<"0">>) :> Level0))
        @@ (Package1b :> (LevelKey(<<"0">>) :> Level0))}

\* stderr of "get-config-current-level" for the packages K
CurrentLevels(K) == [k \in K |-> (CurrentLevelKey :> <<"0">>)]

Tok(tag, num) == [tag |-> tag, num |-> num]
\* stdout of "perf-profile info --debug"
DebugOutputs ==
    {<<<<Tok("logical_cpu", <<"0">>), Tok("punit_core", <<"2">>)>>,
       <<Tok("logical_cpu", <<"1">>), Tok("punit_core", <<"3">>)>>>>,
     <<<<Tok("logical_cpu", <<"0">>), Tok("punit_core", <<"2">>)>>,
       <<Tok("punit_core", <<"3">>), Tok("logical_cpu", <<"1">>)>>>>}

S_configs == <<"/", "O", "p", "e", "r", "a", "t", "i", "n", "g", "C", "o", "n", "f", "i",
               "g", "s", "/">>
S_Disabled == <<"D", "i", "s", "a", "b", "l", "e", "d">>
S_socket == <<"s", "o", "c", "k", "e", "t">>
S_base == <<"b", "a", "s", "e">>

\* Processor documents
ProcDocs ==
    {[Id |-> id, Status |-> [State |-> st],
      AppliedOperatingConfig |-> ("@odata.id" :> S_configs \o cfg),
      BaseSpeedPriorityState |-> bf, HighSpeedCoreIDs |-> <<>>] :
        id \in {S_cpu \o <<"0">>, S_cpu \o <<"1">>, S_socket \o <<"0">>},
        st \in {"Enabled", "Absent"},
        cfg \in {S_config \o <<"0">>, S_config \o <<"1">>, S_base},
        bf \in {S_Disabled}}

\* OperatingConfig documents
ConfigDocs ==
    {RedfishConfig(id, 2, prio, 9, 2500, 5, 4, turbo) :
        id \in {S_config \o <<"0">>, S_config \o <<"1">>, S_base},
        prio \in {<<>>, <<[BaseSpeedMHz |-> 2, CoreIDs |-> <<2, 3>>],
                         [BaseSpeedMHz |-> 1, CoreIDs |-> <<4>>]>>},
        turbo \in {DefaultTurbo, <<>>}}

-----------------------------------------------------------------------------
(* main *)

\* lines 47-48: result[proc].update(data) for every proc of current_level
merge_current_level(result, current_level) ==
    IF ~(DOMAIN current_level \subseteq DOMAIN result)
    THEN [raised |-> "KeyError", value |-> EmptyObj]
    ELSE [raised |-> "none",
          value |-> [k \in DOMAIN result |->
                        IF k \in DOMAIN current_level THEN current_level[k] @@ result[k]
                        ELSE result[k]]]

\* lines 160-189 for a populated processor: the lookup, the four comparisons;
\* count is Members@odata.count of its OperatingConfigCollection
visit_populated(doc, data, cpu_map, count) ==
    LET found == get_linux_package(data, doc.Id)
        pkg == found.value
        applied_config == Last(split(doc.AppliedOperatingConfig["@odata.id"], "/", <<>>))
        level == get_level_from_config_id(applied_config)
        current_level == level.value
        c1 == compare(current_level, pkg[CurrentLevelKey], "Applied Config")
        has_level == LevelKey(current_level) \in DOMAIN pkg
        exp_cur_level_data == pkg[LevelKey(current_level)]
        bf_enabled == lower(doc.BaseSpeedPriorityState)
        raw_bf == exp_cur_level_data["speed-select-base-freq"]
        exp_bf_enabled == IF raw_bf = S_unsupported THEN S_disabled ELSE raw_bf
        c2 == compare(bf_enabled, exp_bf_enabled, "SST-BF Enabled?")
        has_bf == "speed-select-base-freq-properties" \in DOMAIN exp_cur_level_data
        threads == IF has_bf
                   THEN cpu_list(exp_cur_level_data["speed-select-base-freq-properties"]
                                     ["high-priority-cpu-list"])
                   ELSE {}
        c3 == compare(Range(doc.HighSpeedCoreIDs), {cpu_map[x] : x \in threads},
                      "High Speed Core List")
        profile_keys == {k \in DOMAIN pkg : StartsWith(k, S_level)}
        c4 == compare(count, Cardinality(profile_keys), "Number of profiles")
        Raise(exc, printed, p) ==
            [raised |-> exc, printed |-> printed, pkg |-> p, looked_up |-> TRUE]
    IN  IF found.raised # "none" THEN Raise(found.raised, <<>>, NoDoc)
        ELSE IF level.raised # "none" THEN Raise(level.raised, <<>>, pkg)
        ELSE IF CurrentLevelKey \notin DOMAIN pkg THEN Raise("KeyError", <<>>, pkg)
        ELSE IF ~has_level THEN Raise("KeyError", <<c1>>, pkg)
        ELSE IF ~(threads \subseteq DOMAIN cpu_map) THEN Raise("KeyError", <<c1, c2>>, pkg)
        ELSE Raise("none", <<c1, c2, c3, c4>>, pkg)

\* the loop body with the package lookup made before the "Absent" test
visit_processor_lookup_first(doc, data, cpu_map, count, old_pkg) ==
    LET found == get_linux_package(data, doc.Id)
    IN  IF doc.Status.State = "Absent"
        THEN [raised |-> found.raised, printed |-> <<>>,
              pkg |-> IF found.raised = "none" THEN found.value ELSE old_pkg,
              looked_up |-> TRUE]
        ELSE visit_populated(doc, data, cpu_map, count)

\* lines 150-189: one iteration of the processor loop, up to the config loop
visit_processor(doc, data, cpu_map, count, old_pkg) ==
    IF doc.Status.State = "Absent"
    THEN [raised |-> "none", printed |-> <<>>, pkg |-> old_pkg, looked_up |-> FALSE]
    ELSE visit_populated(doc, data, cpu_map, count)

\* lines 193-196: one iteration of the config loop
visit_config(doc, pkg, cpu_map) ==
    LET level == get_level_from_config_id(doc.Id)
    IN  IF level.raised # "none" THEN [raised |-> level.raised, printed |-> <<>>]
        ELSE IF LevelKey(level.value) \notin DOMAIN pkg
             THEN [raised |-> "KeyError", printed |-> <<>>]
        ELSE compare_config(doc, pkg[LevelKey(level.value)], cpu_map)

AnyMismatch(printed) == \E i \in 1..Len(printed) : printed[i].mismatch

\* what every step does with the lines compare() printed
Printed(printed) ==
    /\ out_last' = printed
    /\ printed_mismatch' = (printed_mismatch \/ AnyMismatch(printed))
    /\ success' = compare_success(success, printed)

Init ==
    /\ pc = "start" /\ error = "none"
    /\ linux_data = EmptyObj /\ linux_cpu_map = EmptyMap
    /\ success = TRUE
    /\ members = 0 /\ procIdx = 0 /\ proc_resp = NoDoc /\ pkg_data = NoDoc
    /\ cfgMembers = 0 /\ cfgIdx = 0 /\ config_resp = NoDoc
    /\ out_last = <<>> /\ printed_mismatch = FALSE /\ lookups = 0
    /\ summary = "none" /\ exit_code = -1
    /\ args = NoCall /\ ret = NoCall

\* line 30: the first intel-speed-select invocation exits non-zero
GetLinuxOutputFails ==
    /\ pc = "start"
    /\ pc' = "crashed" /\ error' = "CalledProcessError"
    /\ UNCHANGED <<linux_data, linux_cpu_map, success, members, procIdx, proc_resp,
                   pkg_data, cfgMembers, cfgIdx, config_resp, out_last,
                   printed_mismatch, lookups, summary, exit_code, args, ret>>

\* lines 141-148: get_linux_output, the login and the ProcessorCollection
GetLinuxOutput ==
    /\ pc = "start"
    /\ \E result \in InfoOutputs, stdout \in DebugOutputs, extra \in BOOLEAN,
          n \in 0..MaxProcs :
          LET K == IF extra THEN DOMAIN result \cup {Package1b} ELSE DOMAIN result
              merged == merge_current_level(result, CurrentLevels(K))
          IN  /\ linux_cpu_map' = get_linux_output_map(stdout)
              /\ IF merged.raised # "none"
                 THEN /\ pc' = "crashed" /\ error' = merged.raised
                      /\ UNCHANGED <<linux_data, members>>
                 ELSE /\ pc' = "procs" /\ error' = "none"
                      /\ linux_data' = merged.value
                      /\ members' = n
    /\ UNCHANGED <<success, procIdx, proc_resp, pkg_data, cfgMembers, cfgIdx,
                   config_resp, out_last, printed_mismatch, lookups, summary,
                   exit_code, args, ret>>

\* a GET of a processor or of an operating config fails: the exception propagates
FetchFails ==
    /\ pc \in {"procs", "configs"}
    /\ pc = "procs" => procIdx < members
    /\ pc' = "crashed" /\ error' = "ConnectionError"
    /\ UNCHANGED <<linux_data, linux_cpu_map, success, members, procIdx, proc_resp,
                   pkg_data, cfgMembers, cfgIdx, config_resp, out_last,
                   printed_mismatch, lookups, summary, exit_code, args, ret>>

\* lines 149-189
VisitProcessor ==
    /\ pc = "procs" /\ procIdx < members
    /\ \E doc \in ProcDocs, n \in 0..MaxConfigs :
          LET r == visit_processor(doc, linux_data, linux_cpu_map, n, pkg_data)
              absent == doc.Status.State = "Absent"
          IN  /\ proc_resp' = doc
              /\ pkg_data' = r.pkg
              /\ lookups' = IF r.looked_up THEN lookups + 1 ELSE lookups
              /\ Printed(r.printed)
              /\ error' = r.raised
              /\ IF r.raised # "none"
                 THEN /\ pc' = "crashed"
                      /\ UNCHANGED <<procIdx, cfgMembers, cfgIdx>>
                 ELSE IF absent
                 THEN /\ pc' = "procs" /\ procIdx' = procIdx + 1
                      /\ UNCHANGED <<cfgMembers, cfgIdx>>
                 ELSE IF n = 0
                 THEN /\ pc' = "procs" /\ procIdx' = procIdx + 1
                      /\ cfgMembers' = 0 /\ cfgIdx' = 0
                 ELSE /\ pc' = "configs" /\ cfgMembers' = n /\ cfgIdx' = 0
                      /\ UNCHANGED procIdx
    /\ UNCHANGED <<linux_data, linux_cpu_map, members, config_resp, summary, exit_code,
                   args, ret>>

\* lines 191-196
VisitConfig ==
    /\ pc = "configs" /\ cfgIdx < cfgMembers
    /\ \E doc \in ConfigDocs :
          LET r == visit_config(doc, pkg_data, linux_cpu_map)
          IN  /\ config_resp' = doc
              /\ Printed(r.printed)
              /\ error' = r.raised
              /\ IF r.raised # "none"
                 THEN pc' = "crashed" /\ UNCHANGED <<procIdx, cfgIdx>>
                 ELSE IF cfgIdx + 1 < cfgMembers
                 THEN pc' = "configs" /\ cfgIdx' = cfgIdx + 1 /\ UNCHANGED procIdx
                 ELSE pc' = "procs" /\ cfgIdx' = cfgIdx + 1 /\ procIdx' = procIdx + 1
    /\ UNCHANGED <<linux_data, linux_cpu_map, members, proc_resp, pkg_data, cfgMembers,
                   lookups, summary, exit_code, args, ret>>

\* the summary printed from a finally clause: not what the code does
FinishAlways ==
    /\ pc \in {"procs", "crashed"} /\ summary = "none"
    /\ pc = "procs" => procIdx = members
    /\ summary' = IF success THEN "Everything matched! :)"
                  ELSE "There were mismatches, please check output :("
    /\ exit_code' = IF success THEN 0 ELSE 1
    /\ pc' = IF pc = "crashed" THEN "crashed" ELSE "done"
    /\ UNCHANGED <<error, linux_data, linux_cpu_map, success, members, procIdx,
                   proc_resp, pkg_data, cfgMembers, cfgIdx, config_resp, out_last,
                   printed_mismatch, lookups, args, ret>>

\* lines 198-204
Finish ==
    /\ pc = "procs" /\ procIdx = members
    /\ summary' = IF success THEN "Everything matched! :)"
                  ELSE "There were mismatches, please check output :("
    /\ exit_code' = IF success THEN 0 ELSE 1
    /\ pc' = "done"
    /\ UNCHANGED <<error, linux_data, linux_cpu_map, success, members, procIdx,
                   proc_resp, pkg_data, cfgMembers, cfgIdx, config_resp, out_last,
                   printed_mismatch, lookups, args, ret>>

Next ==
    \/ GetLinuxOutputFails
    \/ GetLinuxOutput
    \/ FetchFails
    \/ VisitProcessor
    \/ VisitConfig
    \/ Finish

Spec == Init /\ [][Next]_vars

-----------------------------------------------------------------------------
(* Properties of the functions, checked under UnitSpec *)

CpuShape(id) ==
    /\ StartsWith(id, S_cpu)
    /\ Len(id) > Len(S_cpu)
    /\ \A i \in (Len(S_cpu) + 1)..Len(id) : id[i] \in Digits

KeysOfPackage(data, id) ==
    {k \in DOMAIN data :
        StartsWith(k, S_package \o SubSeq(id, Len(S_cpu) + 1, Len(id)) \o <<":">>)}

\* C3: get_linux_package returns the record of the single key starting with
\* "package-<N>:" when the identifier is "cpu<N>" and exactly one key matches, and
\* raises when the identifier is not of that shape or the number of matching keys
\* is not one.
C3_PackageLookup ==
    ret.fn = "get_linux_package" =>
        IF CpuShape(args.redfish_id)
           /\ Cardinality(KeysOfPackage(args.linux_data, args.redfish_id)) = 1
        THEN /\ ret.raised = "none"
             /\ \E k \in KeysOfPackage(args.linux_data, args.redfish_id) :
                    ret.value = args.linux_data[k]
        ELSE ret.raised # "none"

\* the expected list of pairs of a bucket table: position r holds the bucket whose
\* key has r-1 keys lexically below it
TurboMatches(profile, table) ==
    /\ Len(profile) = Cardinality(DOMAIN table)
    /\ \A k \in DOMAIN table :
          LET r == 1 + Cardinality({j \in DOMAIN table : StrLess(j, k)})
          IN  /\ profile[r].ActiveCoreCount = int(table[k]["core-count"])
              /\ profile[r].MaxSpeedMHz = int(table[k]["max-turbo-frequency(MHz)"])

ExampleTable ==
    (Bucket(<<"1">>) :> LocalBucket(<<"2">>, <<"2", "8", "0", "0">>))
    @@ (Bucket(<<"0">>) :> LocalBucket(<<"4">>, <<"2", "5", "0", "0">>))
ExampleProfile == <<[ActiveCoreCount |-> 4, MaxSpeedMHz |-> 2500],
                    [ActiveCoreCount |-> 2, MaxSpeedMHz |-> 2800]>>
ExampleSwapped == <<[ActiveCoreCount |-> 2, MaxSpeedMHz |-> 2800],
                    [ActiveCoreCount |-> 4, MaxSpeedMHz |-> 2500]>>

TurboCompared == ret.fn = "compare_config" /\ ret.raised = "none"

\* C7: the "SSE Turbo Profile" comparison reports no mismatch exactly when the
\* remote (ActiveCoreCount, MaxSpeedMHz) list equals, element by element, the local
\* buckets taken in ascending lexical order of their keys; the example of the
\* specification matches and its reversal does not.
C7_TurboProfile ==
    TurboCompared =>
        LET profile == args.redfish_config.TurboProfile
            table == args.linux_config["turbo-ratio-limits-sse"]
        IN  /\ ret.printed[9].description = "SSE Turbo Profile"
            /\ ~ret.printed[9].mismatch <=> TurboMatches(profile, table)
            /\ table = ExampleTable /\ profile = ExampleProfile => ~ret.printed[9].mismatch
            /\ table = ExampleTable /\ profile = ExampleSwapped => ret.printed[9].mismatch

C7_Witness ==
    /\ TurboCompared
    /\ args.linux_config["turbo-ratio-limits-sse"] = ExampleTable
    /\ args.redfish_config.TurboProfile = ExampleProfile
    /\ ~ret.printed[9].mismatch

BothTags(line) ==
    \E i, j \in 1..Len(line) :
        i < j /\ line[i].tag = "logical_cpu" /\ line[j].tag = "punit_core"
ThreadOf(line) == int(line[Min(LogicalAt(line))].num)
CoreOf(line) == int(line[Max(PunitAt(line))].num)

\* C8: after the scan the map has an entry for the logical thread of every line
\* that carries logical_cpu:<N> followed by punit_core:<M>, every entry comes from
\* such a line, and the entry of a thread is the physical core of the last line
\* that names the thread.
C8_IdentifierMap ==
    ret.fn = "get_linux_output" =>
        LET lines == args.stdout
            tagged == {n \in 1..Len(lines) : BothTags(lines[n])}
        IN  /\ \A n \in tagged : ThreadOf(lines[n]) \in DOMAIN linux_cpu_map
            /\ \A t \in DOMAIN linux_cpu_map :
                  \E n \in tagged :
                      /\ ThreadOf(lines[n]) = t
                      /\ \A m \in tagged : m > n => ThreadOf(lines[m]) # t
                      /\ linux_cpu_map[t] = CoreOf(lines[n])

C8_Witness ==
    /\ ret.fn = "get_linux_output"
    /\ \E n, m \in 1..Len(args.stdout) :
          /\ n < m /\ BothTags(args.stdout[n]) /\ BothTags(args.stdout[m])
          /\ ThreadOf(args.stdout[n]) = ThreadOf(args.stdout[m])
          /\ CoreOf(args.stdout[n]) # CoreOf(args.stdout[m])
          /\ linux_cpu_map[ThreadOf(args.stdout[m])] = CoreOf(args.stdout[m])

Speeds(settings) == {settings[i].BaseSpeedMHz : i \in 1..Len(settings)}

\* C9: the remote value of the "SST-BF Low Priority P1 Freq" comparison is the
\* lowest BaseSpeedMHz of the priority-settings list, and 0 for the empty list.
C9_LowPriorityFreq ==
    ret.fn = "compare_config" /\ Len(ret.printed) >= 4 =>
        LET settings == args.redfish_config.BaseSpeedPrioritySettings
        IN  /\ ret.printed[4].description = "SST-BF Low Priority P1 Freq"
            /\ ret.printed[4].Redfish =
                  IF settings = <<>> THEN 0 ELSE Min(Speeds(settings))

\* C10: the remote value of the "SST-BF High Priority P1 Freq" comparison is the
\* highest BaseSpeedMHz of the list (0 for the empty list), and the remote value of
\* the "SST-BF High Priority Core List" comparison is the CoreIDs of the first entry
\* that has this BaseSpeedMHz (the empty set for the empty list).
C10_HighPriority ==
    ret.fn = "compare_config" /\ Len(ret.printed) >= 4 =>
        LET settings == args.redfish_config.BaseSpeedPrioritySettings
            top == Max(Speeds(settings))
            first == Min({i \in 1..Len(settings) : settings[i].BaseSpeedMHz = top})
        IN  /\ ret.printed[2].description = "SST-BF High Priority P1 Freq"
            /\ ret.printed[3].description = "SST-BF High Priority Core List"
            /\ ret.printed[2].Redfish = IF settings = <<>> THEN 0 ELSE top
            /\ ret.printed[3].Redfish =
                  IF settings = <<>> THEN {} ELSE Range(settings[first].CoreIDs)

-----------------------------------------------------------------------------
(* Properties of main, checked under Spec *)

\* C1: a run that reaches the end returns 0 when every comparison it made had
\* equal values and 1 when some comparison had differing values.
C1_ExitCode ==
    pc = "done" => exit_code = IF printed_mismatch THEN 1 ELSE 0

\* C2: the success flag starts true, is set to false by exactly the compare calls
\* whose two values differ, and is never set back: it is false exactly when some
\* comparison so far has printed a mismatch.
C2_SuccessFlag ==
    success <=> ~printed_mismatch

\* a step of the processor loop that fetched a processor document
ProcessorStep ==
    /\ pc = "procs" /\ procIdx < members
    /\ pc' # pc \/ procIdx' # procIdx
    /\ error' # "ConnectionError"

\* C4: visiting a processor whose Status.State is "Absent" makes no comparison and
\* no package lookup, leaves the success flag alone, raises nothing, and moves on
\* to the next member of the collection.
C4_AbsentSkipped ==
    [][ProcessorStep /\ proc_resp'.Status.State = "Absent" =>
            /\ out_last' = <<>>
            /\ lookups' = lookups /\ pkg_data' = pkg_data
            /\ success' = success /\ printed_mismatch' = printed_mismatch
            /\ error' = "none" /\ pc' = "procs" /\ procIdx' = procIdx + 1]_vars

C4_Witness ==
    /\ pc = "procs" /\ error = "none" /\ procIdx = 1 /\ members > 1
    /\ proc_resp.Status.State = "Absent"
    /\ proc_resp.Id = S_socket \o <<"0">>
    /\ out_last = <<>> /\ lookups = 0

NineComparisons ==
    <<"Base Speed", "SST-BF High Priority P1 Freq", "SST-BF High Priority Core List",
      "SST-BF Low Priority P1 Freq", "Junction Temperature", "SSE Max Turbo Speed", "TDP",
      "Enabled Core Count", "SSE Turbo Profile">>

\* every field compare_config reads is there: the keys of the level object, the
\* bucket-0 entry, and a physical core for every thread of the high-priority list
FieldsPresent(level_data, cpu_map) ==
    /\ {"base-frequency(MHz)", "tjunction-max(C)", "turbo-ratio-limits-sse",
        "thermal-design-power(W)", "enable-cpu-count"} \subseteq DOMAIN level_data
    /\ BucketZero \in DOMAIN level_data["turbo-ratio-limits-sse"]
    /\ "speed-select-base-freq-properties" \in DOMAIN level_data =>
          LET parts == split(level_data["speed-select-base-freq-properties"]
                                 ["high-priority-cpu-list"], ",", <<>>)
          IN  \A i \in 1..Len(parts) : int(parts[i]) \in DOMAIN cpu_map

\* the document has a config<N> identifier and the package has that level
HasLevel(doc, pkg) ==
    /\ StartsWith(doc.Id, S_config) /\ Len(doc.Id) > Len(S_config)
    /\ doc.Id[Len(S_config) + 1] \in Digits
    /\ LevelKey(DigitRun(doc.Id, Len(S_config) + 1)) \in DOMAIN pkg

\* a step of the config loop that fetched a document and passed it to compare_config
ConfigStep ==
    /\ pc = "configs"
    /\ pc' # pc \/ cfgIdx' # cfgIdx
    /\ error' # "ConnectionError"
    /\ HasLevel(config_resp', pkg_data)

\* C5: for a profile whose fields are all present compare_config makes the nine
\* comparisons in their fixed order whatever their outcomes, raises nothing, and
\* the driver goes on to the next profile, or to the next processor after the last.
C5_NoStopOnMismatch ==
    [][ConfigStep
        /\ FieldsPresent(pkg_data[LevelKey(DigitRun(config_resp'.Id, Len(S_config) + 1))],
                         linux_cpu_map) =>
            /\ Len(out_last') = 9
            /\ \A i \in 1..9 : out_last'[i].description = NineComparisons[i]
            /\ error' = "none"
            /\ cfgIdx' = cfgIdx + 1
            /\ IF cfgIdx + 1 < cfgMembers
               THEN pc' = "configs" /\ procIdx' = procIdx
               ELSE pc' = "procs" /\ procIdx' = procIdx + 1]_vars

C5_Witness ==
    /\ pc = "configs" /\ cfgIdx = 1 /\ error = "none"
    /\ Len(out_last) = 9
    /\ out_last[1].mismatch /\ out_last[2].mismatch /\ out_last[9].mismatch
    /\ ~out_last[5].mismatch

====
